---- MODULE Spec2Model ----
(***************************************************************************)
(* Model of deploy.js: the one-way synchronisation of the local directory  *)
(* dist/ to an S3 bucket.  iterS3 pages through the bucket listing while   *)
(* iterFS walks the directory; main diffs the two by MD5/ETag, puts the    *)
(* new or changed files, and deletes what is left in s3Map.                *)
(*                                                                         *)
(* Strings are sequences of tokens.  A key (a path relative to dist/) is a *)
(* sequence of path components, an ETag is a sequence of characters.       *)
(***************************************************************************)
EXTENDS Integers, Sequences, FiniteSets, TLC

\* ------------------------------------------------------------- bounds
NumKeys == 3        \* distinct relative paths that may exist on either side
MaxContent == 2     \* distinct file contents
MaxObjects == 3     \* local files plus bucket objects before the first run
PageSize == 2       \* objects S3 returns per listObjects page
MaxRuns == 2        \* successive runs of main()
MaxNodes == 4       \* files and directories in a tree that is walked on its own

\* ------------------------------------------------------------- values
distDir == <<"dist/">>

Paths == {<<i>> : i \in 1..NumKeys}
Contents == 1..MaxContent

Q == "\""
Undefined == <<"undefined">>   \* the value of a variable or property never set
NoMarker == <<>>               \* iterPage() called without a marker

\* crypto.createHash('md5').update(data).digest('hex'): a hex string that is
\* a function of the bytes alone (distinct contents of the model do not collide).
MD5(data) == <<"md5", ToString(data)>>

\* The ETag S3 reports for an object put in one part: the quoted MD5 of its bytes.
Quote(s) == <<Q>> \o s \o <<Q>>
ETagOf(data) == Quote(MD5(data))

\* ETag of an object uploaded in parts: quoted, but not the MD5 of the content.
MultipartETag == Quote(MD5(1) \o <<"-2">>)
\* An ETag that is not a JSON document (no quotes around the token).
BareETag == MD5(1) \o <<"-2">>

\* The ETags the objects of a bucket may carry (S3 lists every object with one).
ETags == {ETagOf(c) : c \in Contents} \cup {MultipartETag, BareETag}

\* (variant: the ETag is used as it is, quotes included)
JSONparseRaw(s) == [ok |-> TRUE, val |-> s]

\* JSON.parse on an ETag: a quoted token decodes to the token, anything else throws.
JSONparse(s) ==
    IF Len(s) >= 2 /\ s[1] = Q /\ s[Len(s)] = Q
       /\ \A i \in 2..(Len(s) - 1) : s[i] # Q
    THEN [ok |-> TRUE, val |-> SubSeq(s, 2, Len(s) - 1)]
    ELSE [ok |-> FALSE, val |-> Undefined]

\* path.join(dirname, filename) and String.prototype.substring(n).
pathJoin(dirname, filename) == dirname \o filename
substring(s, n) == SubSeq(s, n + 1, Len(s))

\* Keys are listed by S3 in ascending order.
KeyLess(a, b) == a[1] < b[1]

RECURSIVE SortKeys(_)
SortKeys(S) ==
    IF S = {} THEN <<>>
    ELSE LET m == CHOOSE x \in S : \A y \in S \ {x} : KeyLess(x, y)
         IN <<m>> \o SortKeys(S \ {m})

\* (variant: nothing is removed)
RemoveNothing(m, x) == m

\* delete m[x]
Remove(m, x) == [k \in (DOMAIN m) \ {x} |-> m[k]]

\* ------------------------------------------------------------- state
VARIABLES
    local,       \* the tree under dist/: relative path -> file content
    bucket,      \* the S3 bucket: key -> ETag of the stored object
    run,         \* which run of main() this is
    listState,   \* iterS3's promise: "paging", "resolved", "rejected"
    keys,        \* iterS3's accumulator, a sequence of {Key, ETag} records
    marker,      \* Marker of the listObjects request in flight
    requests,    \* the Markers of the listObjects requests made this run
    dirs,        \* the directories under dist/, as relative paths
    walkState,   \* iterFS's promise: "readdir" (of dist/), "stat" (of entries,
                 \* with the nested calls), "resolved", "rejected"
    dirPending,  \* subdirectories whose readdirAsync has not called back
    statPending, \* full paths whose statAsync has not called back
    localFiles,  \* what iterFS resolved with, a sequence of full paths
    mainPc,      \* main's promise chain: "gather", "upload", "extra",
                 \* "deleting", "done", "failed"
    s3Map,       \* main's s3Map: key -> {Key, ETag} record
    task,        \* per relative path: "none", "reading", "skipped", "putting",
                 \* "uploaded", "failed"
    puts,        \* per key: bodies of the putObject requests issued this run
    dels,        \* per key: number of deleteObject requests issued this run
    delTask,     \* per key: "none", "pending", "ok", "failed"
    extraFiles,  \* the keys main's second continuation hands to the third
    failures,    \* kinds of operation that have failed in this run
    lastOps      \* requests (puts plus deletes) the previous run issued

vars == <<local, dirs, bucket, run, listState, keys, marker, requests, walkState,
          dirPending, statPending, localFiles, mainPc, s3Map, task, puts, dels,
          delTask, extraFiles, failures, lastOps>>

treeVars == <<local, dirs, run, lastOps>>
listVars == <<listState, keys, marker, requests>>
walkVars == <<walkState, dirPending, statPending, localFiles>>
delVars == <<dels, delTask, extraFiles>>

\* The state main() starts from, for a given tree (files l, directories ds)
\* and bucket: the first listObjects and the readdir of dist/ are in flight.
StartTree(l, ds, b, r) ==
    /\ local = l
    /\ dirs = ds
    /\ bucket = b
    /\ run = r
    /\ listState = "paging"
    /\ keys = <<>>
    /\ marker = NoMarker
    /\ requests = <<NoMarker>>
    /\ walkState = "readdir"
    /\ dirPending = {}
    /\ statPending = {}
    /\ localFiles = <<>>
    /\ mainPc = "gather"
    /\ s3Map = <<>>
    /\ task = [k \in Paths |-> "none"]
    /\ puts = [k \in Paths |-> <<>>]
    /\ dels = [k \in Paths |-> 0]
    /\ delTask = [k \in Paths |-> "none"]
    /\ extraFiles = {}
    /\ failures = {}
    /\ lastOps = 0

\* The same with every file directly in dist/.
Start(l, b, r) == StartTree(l, {}, b, r)

Trees == UNION {[D -> Contents] : D \in SUBSET Paths}
Buckets == UNION {[D -> ETags] : D \in SUBSET Paths}

Init ==
    \E l \in Trees, b \in Buckets :
        /\ Cardinality(DOMAIN l) + Cardinality(DOMAIN b) <= MaxObjects
        /\ Start(l, b, 1)

\* ------------------------------------------------------------- iterS3
\* What s3.listObjects({Bucket, Marker}) answers: the next PageSize objects
\* after the marker in key order, and whether more remain.
ListObjects(b, m) ==
    LET after == {k \in DOMAIN b : m = NoMarker \/ KeyLess(m, k)}
        sorted == SortKeys(after)
        n == IF Len(sorted) < PageSize THEN Len(sorted) ELSE PageSize
    IN [Contents |-> [i \in 1..n |-> [Key |-> sorted[i], ETag |-> b[sorted[i]]]],
        IsTruncated |-> Len(sorted) > n]

\* (variant: an error or a null page resolves with what has been accumulated)
PageOutcomeResolving(err, isNull, truncated) ==
    IF err \/ isNull THEN "resolved"
    ELSE IF truncated THEN "paging"
    ELSE "resolved"

\* What the listObjects callback does to the promise, given (err, data).
PageOutcome(err, isNull, truncated) ==
    IF err \/ isNull THEN "rejected"
    ELSE IF truncated THEN "paging"
    ELSE "resolved"

\* (variant: the key of the first object of the page)
NextMarkerFirst(contents) == contents[1].Key

\* data.Contents.slice(-1)[0].Key
NextMarker(contents) == contents[Len(contents)].Key

\* The listObjects callback.  resp is "page" (err null, data a page), "error"
\* (err set, data null) or "null" (both null).  After reject(err) the callback
\* goes on to data.Contents, which throws on the null data, so nothing is
\* pushed and no further page is requested.
ListPage(resp) ==
    /\ listState = "paging"
    /\ LET data == ListObjects(bucket, marker)
           bad == resp # "page"
           out == PageOutcome(resp = "error", resp = "null", data.IsTruncated)
       IN /\ listState' = out
          /\ keys' = IF bad THEN keys ELSE keys \o data.Contents
          /\ marker' = IF ~bad /\ data.IsTruncated
                       THEN NextMarker(data.Contents)
                       ELSE marker
          /\ requests' = IF ~bad /\ data.IsTruncated
                         THEN Append(requests, NextMarker(data.Contents))
                         ELSE requests
          /\ failures' = IF bad THEN failures \cup {"list"} ELSE failures
    /\ UNCHANGED <<treeVars, bucket, walkVars, mainPc, s3Map, task, puts, delVars>>

\* ------------------------------------------------------------- iterFS
\* var ignore = [];  "fullpath in ignore" asks whether fullpath is an index of
\* the array; the outcome is only logged.
ignore == <<>>
InIgnore(fullpath) == fullpath \in DOMAIN ignore

\* The relative paths of the entries of directory d (a relative path, <<>>
\* for dist/ itself), files and directories alike.
Children(l, ds, d) ==
    {p \in (DOMAIN l) \cup ds : Len(p) = Len(d) + 1 /\ SubSeq(p, 1, Len(d)) = d}

\* What readdir reports for d: the names of its entries, in order.
Entries(l, ds, d) == SortKeys({<<p[Len(p)]>> : p \in Children(l, ds, d)})

\* (variant: a directory is emitted like a file instead of being walked)
RECURSIVE iterFSNoDescend(_, _, _)
iterFSNoDescend(l, ds, dirname) ==
    LET names == Entries(l, ds, substring(dirname, Len(distDir)))
        mapped == [i \in 1..Len(names) |-> <<pathJoin(dirname, names[i])>>]
        reduce[i \in 0..Len(names)] ==
            IF i = 0 THEN <<>> ELSE reduce[i - 1] \o mapped[i]
    IN reduce[Len(names)]

\* What iterFS(dirname) resolves with: every entry mapped to its full path, or
\* to the list iterFS gives for it when it is a directory, and the results
\* concatenated in the order of the entries.
RECURSIVE iterFS(_, _, _)
iterFS(l, ds, dirname) ==
    LET names == Entries(l, ds, substring(dirname, Len(distDir)))
        mapped == [i \in 1..Len(names) |->
                     LET fullpath == pathJoin(dirname, names[i])
                     IN IF substring(fullpath, Len(distDir)) \in ds
                        THEN iterFS(l, ds, fullpath)
                        ELSE <<fullpath>>]
        reduce[i \in 0..Len(names)] ==
            IF i = 0 THEN <<>> ELSE reduce[i - 1] \o mapped[i]
    IN reduce[Len(names)]

\* The flat list dist/ is walked to when every file is directly in it.
FullPaths(l) == iterFS(l, {}, distDir)

\* fs.readdirAsync(dirname) calls back, for dist/ or for a subdirectory a stat
\* has found.  A statAsync is started for every entry; with no entry, and
\* nothing else in flight, map and reduce resolve at once.
Readdir(dirname, ok) ==
    /\ \/ walkState = "readdir" /\ dirname = distDir
       \/ walkState = "stat" /\ dirname \in dirPending
    /\ IF ~ok
       THEN /\ walkState' = "rejected"
            /\ dirPending' = {}
            /\ statPending' = {}
            /\ failures' = failures \cup {"walk"}
            /\ UNCHANGED localFiles
       ELSE /\ dirPending' = dirPending \ {dirname}
            /\ statPending' = statPending \cup
                  {pathJoin(dirname, <<p[Len(p)]>>) :
                      p \in Children(local, dirs, substring(dirname, Len(distDir)))}
            /\ walkState' = IF dirPending' = {} /\ statPending' = {}
                            THEN "resolved" ELSE "stat"
            /\ localFiles' = IF walkState' = "resolved"
                             THEN iterFS(local, dirs, distDir) ELSE localFiles
            /\ UNCHANGED failures
    /\ UNCHANGED <<treeVars, bucket, listVars, mainPc, s3Map, task, puts, delVars>>

\* fs.statAsync(fullpath) calls back.  The test against ignore changes nothing.
\* A directory is handed to iterFS, whose readdirAsync is then in flight; a
\* file maps to its full path.  The last callback lets the reduce of dist/
\* resolve with the flat list.
Stat(fullpath, ok) ==
    /\ walkState = "stat"
    /\ fullpath \in statPending
    /\ IF ~ok
       THEN /\ walkState' = "rejected"
            /\ dirPending' = {}
            /\ statPending' = {}
            /\ failures' = failures \cup {"walk"}
            /\ UNCHANGED localFiles
       ELSE /\ statPending' = statPending \ {fullpath}
            /\ dirPending' = IF substring(fullpath, Len(distDir)) \in dirs
                             THEN dirPending \cup {fullpath} ELSE dirPending
            /\ walkState' = IF dirPending' = {} /\ statPending' = {}
                            THEN "resolved" ELSE "stat"
            /\ localFiles' = IF walkState' = "resolved"
                             THEN iterFS(local, dirs, distDir) ELSE localFiles
            /\ UNCHANGED failures
    /\ UNCHANGED <<treeVars, bucket, listVars, mainPc, s3Map, task, puts, delVars>>

\* ------------------------------------------------------------- main
\* s3Files.reduce(...): the listing as an object keyed by Key, last one wins.
BuildMap(files) ==
    [k \in {files[i].Key : i \in 1..Len(files)} |->
        files[CHOOSE i \in 1..Len(files) :
                 /\ files[i].Key = k
                 /\ \A j \in (i + 1)..Len(files) : files[j].Key # k]]

\* localFiles.map(x => x.substring(distDir.length))
RelativePaths(files) == {substring(files[i], Len(distDir)) : i \in 1..Len(files)}

\* (variants: the comparison never holds; an assignment in place of it)
HashEqNever(s3hash, localhash) == FALSE
HashEqAssign(s3hash, localhash) == TRUE

\* s3hash == localhash
HashEq(s3hash, localhash) == s3hash = localhash

\* What the readFileAsync continuation decides for file x with bytes data:
\* "throw" when JSON.parse rejects the ETag, "skip" when the hashes are equal,
\* "upload" otherwise.
Decide(map, x, data) ==
    LET has == x \in DOMAIN map /\ map[x].ETag # Undefined
        parsed == IF has THEN JSONparse(map[x].ETag)
                  ELSE [ok |-> TRUE, val |-> Undefined]
        localhash == MD5(data)
    IN IF ~parsed.ok THEN "throw"
       ELSE IF HashEq(parsed.val, localhash) THEN "skip"
       ELSE "upload"

\* (variants: fulfilled without waiting for the pending operations; fulfilled
\* once every operation has settled, rejected ones included; never fulfilled
\* when there is no operation at all)
MapFulfilledNonEmpty(t) ==
    /\ \E k \in DOMAIN t : t[k] # "none"
    /\ \A k \in DOMAIN t : t[k] \in {"none", "skipped", "uploaded", "ok"}
MapFulfilledEarly(t) == \A k \in DOMAIN t : t[k] # "failed"
MapFulfilledSettled(t) == \A k \in DOMAIN t : t[k] \notin {"reading", "putting", "pending"}

\* Promise.map over the per-file promises: fulfilled when every one is,
\* rejected as soon as one is.
MapFulfilled(t) == \A k \in DOMAIN t : t[k] \in {"none", "skipped", "uploaded", "ok"}
MapRejected(t) == \E k \in DOMAIN t : t[k] = "failed"

\* (variant: the mapping yields no key)
ExtraFilesNone(map) == {}

\* _.map(s3Map, function(a, b) {return b})
ExtraFiles(map) == DOMAIN map

\* (variant: with no local file the continuation returns at once, without s3Map)
SpreadGuarded ==
    /\ mainPc = "gather"
    /\ listState = "resolved"
    /\ walkState = "resolved"
    /\ mainPc' = "upload"
    /\ s3Map' = IF localFiles = <<>> THEN <<>> ELSE BuildMap(keys)
    /\ task' = [k \in Paths |->
                  IF k \in RelativePaths(localFiles) THEN "reading" ELSE "none"]
    /\ UNCHANGED <<treeVars, bucket, listVars, walkVars, puts, delVars, failures>>

\* (variant: the continuation waits for the walk alone)
SpreadEarly ==
    /\ mainPc = "gather"
    /\ walkState = "resolved"
    /\ mainPc' = "upload"
    /\ s3Map' = BuildMap(keys)
    /\ task' = [k \in Paths |->
                  IF k \in RelativePaths(localFiles) THEN "reading" ELSE "none"]
    /\ UNCHANGED <<treeVars, bucket, listVars, walkVars, puts, delVars, failures>>

\* Promise.all([iterS3, iterFS]).spread(...): both resolved; s3Map is built
\* and readFileAsync is started for every local file.
Spread ==
    /\ mainPc = "gather"
    /\ listState = "resolved"
    /\ walkState = "resolved"
    /\ mainPc' = "upload"
    /\ s3Map' = BuildMap(keys)
    /\ task' = [k \in Paths |->
                  IF k \in RelativePaths(localFiles) THEN "reading" ELSE "none"]
    /\ UNCHANGED <<treeVars, bucket, listVars, walkVars, puts, delVars, failures>>

\* Promise.all rejects: no continuation of the chain runs.
GatherRejected ==
    /\ mainPc = "gather"
    /\ listState = "rejected" \/ walkState = "rejected"
    /\ mainPc' = "failed"
    /\ UNCHANGED <<treeVars, bucket, listVars, walkVars, s3Map, task, puts,
                   delVars, failures>>

\* (variant: a skipped file's key is left in s3Map)
ReadOkNoClaim(x) ==
    /\ task[x] = "reading"
    /\ LET data == local[x]
           d == Decide(s3Map, x, data)
       IN /\ task' = [task EXCEPT ![x] = CASE d = "throw" -> "failed"
                                           [] d = "skip" -> "skipped"
                                           [] OTHER -> "putting"]
          /\ puts' = IF d = "upload"
                     THEN [puts EXCEPT ![x] = Append(@, data)]
                     ELSE puts
          /\ failures' = IF d = "throw" THEN failures \cup {"parse"} ELSE failures
    /\ UNCHANGED <<treeVars, bucket, listVars, walkVars, mainPc, s3Map, delVars>>

\* readFileAsync(distDir + x) resolves and its continuation runs.
ReadOk(x) ==
    /\ task[x] = "reading"
    /\ LET data == local[x]
           d == Decide(s3Map, x, data)
       IN /\ task' = [task EXCEPT ![x] = CASE d = "throw" -> "failed"
                                           [] d = "skip" -> "skipped"
                                           [] OTHER -> "putting"]
          /\ s3Map' = IF d = "skip" THEN Remove(s3Map, x) ELSE s3Map
          /\ puts' = IF d = "upload"
                     THEN [puts EXCEPT ![x] = Append(@, data)]
                     ELSE puts
          /\ failures' = IF d = "throw" THEN failures \cup {"parse"} ELSE failures
    /\ UNCHANGED <<treeVars, bucket, listVars, walkVars, mainPc, delVars>>

\* readFileAsync rejects.
ReadFail(x) ==
    /\ task[x] = "reading"
    /\ task' = [task EXCEPT ![x] = "failed"]
    /\ failures' = failures \cup {"read"}
    /\ UNCHANGED <<treeVars, bucket, listVars, walkVars, mainPc, s3Map, puts, delVars>>

\* (variant: the uploaded key is left in s3Map)
PutOkKeep(x) ==
    /\ task[x] = "putting"
    /\ bucket' = [k \in (DOMAIN bucket) \cup {x} |->
                    IF k = x THEN ETagOf(puts[x][Len(puts[x])]) ELSE bucket[k]]
    /\ task' = [task EXCEPT ![x] = "uploaded"]
    /\ UNCHANGED <<treeVars, listVars, walkVars, mainPc, s3Map, puts, delVars, failures>>

\* (variant: once the chain is rejected the requests in flight are cancelled)
PutOkCancelled(x) ==
    /\ mainPc # "failed"
    /\ task[x] = "putting"
    /\ bucket' = [k \in (DOMAIN bucket) \cup {x} |->
                    IF k = x THEN ETagOf(puts[x][Len(puts[x])]) ELSE bucket[k]]
    /\ task' = [task EXCEPT ![x] = "uploaded"]
    /\ s3Map' = Remove(s3Map, x)
    /\ UNCHANGED <<treeVars, listVars, walkVars, mainPc, puts, delVars, failures>>

\* putObject calls back without error: the object is stored, S3 reports the
\* quoted MD5 of the body as its ETag, and the key leaves s3Map.
PutOk(x) ==
    /\ task[x] = "putting"
    /\ bucket' = [k \in (DOMAIN bucket) \cup {x} |->
                    IF k = x THEN ETagOf(puts[x][Len(puts[x])]) ELSE bucket[k]]
    /\ task' = [task EXCEPT ![x] = "uploaded"]
    /\ s3Map' = Remove(s3Map, x)
    /\ UNCHANGED <<treeVars, listVars, walkVars, mainPc, puts, delVars, failures>>

\* (variant: a failed put is tried once more)
PutFailRetry(x) ==
    /\ task[x] = "putting"
    /\ IF Len(puts[x]) < 2
       THEN /\ puts' = [puts EXCEPT ![x] = Append(@, local[x])]
            /\ UNCHANGED <<task, failures>>
       ELSE /\ task' = [task EXCEPT ![x] = "failed"]
            /\ failures' = failures \cup {"put"}
            /\ UNCHANGED puts
    /\ UNCHANGED <<treeVars, bucket, listVars, walkVars, mainPc, s3Map, delVars>>

\* putObject calls back with an error.
PutFail(x) ==
    /\ task[x] = "putting"
    /\ task' = [task EXCEPT ![x] = "failed"]
    /\ failures' = failures \cup {"put"}
    /\ UNCHANGED <<treeVars, bucket, listVars, walkVars, mainPc, s3Map, puts, delVars>>

\* One per-file promise has rejected: the chain is rejected, the other files'
\* operations go on.
UploadsRejected ==
    /\ mainPc = "upload"
    /\ MapRejected(task)
    /\ mainPc' = "failed"
    /\ UNCHANGED <<treeVars, bucket, listVars, walkVars, s3Map, task, puts,
                   delVars, failures>>

\* Every per-file promise is fulfilled: s3Map is returned and the second
\* continuation takes its keys ("Done uploading.").
UploadsSettled ==
    /\ mainPc = "upload"
    /\ MapFulfilled(task)
    /\ mainPc' = "extra"
    /\ extraFiles' = ExtraFiles(s3Map)
    /\ UNCHANGED <<treeVars, bucket, listVars, walkVars, s3Map, task, puts,
                   dels, delTask, failures>>

\* The third continuation: deleteS3 for every extra file, none if there is none.
StartDeletes ==
    /\ mainPc = "extra"
    /\ mainPc' = "deleting"
    /\ delTask' = [k \in Paths |-> IF k \in extraFiles THEN "pending" ELSE "none"]
    /\ dels' = [k \in Paths |-> IF k \in extraFiles THEN dels[k] + 1 ELSE dels[k]]
    /\ UNCHANGED <<treeVars, bucket, listVars, walkVars, s3Map, task, puts,
                   extraFiles, failures>>

\* deleteObject calls back without error.
DeleteOk(k) ==
    /\ delTask[k] = "pending"
    /\ delTask' = [delTask EXCEPT ![k] = "ok"]
    /\ bucket' = Remove(bucket, k)
    /\ UNCHANGED <<treeVars, listVars, walkVars, mainPc, s3Map, task, puts,
                   dels, extraFiles, failures>>

\* deleteObject calls back with an error; with "NotFound" the object is
\* already gone from the bucket.  deleteS3 rejects whatever the error is.
DeleteFail(k, e) ==
    /\ delTask[k] = "pending"
    /\ delTask' = [delTask EXCEPT ![k] = "failed"]
    /\ bucket' = IF e = "NotFound" THEN Remove(bucket, k) ELSE bucket
    /\ failures' = failures \cup {IF e = "NotFound" THEN "notfound" ELSE "delete"}
    /\ UNCHANGED <<treeVars, listVars, walkVars, mainPc, s3Map, task, puts,
                   dels, extraFiles>>

\* One deleteS3 promise has rejected: the chain is rejected.
DeletesRejected ==
    /\ mainPc = "deleting"
    /\ MapRejected(delTask)
    /\ mainPc' = "failed"
    /\ UNCHANGED <<treeVars, bucket, listVars, walkVars, s3Map, task, puts,
                   delVars, failures>>

\* (variant: the third continuation does not return the promise of the deletes)
DoneUnchained ==
    /\ mainPc = "deleting"
    /\ mainPc' = "done"
    /\ UNCHANGED <<treeVars, bucket, listVars, walkVars, s3Map, task, puts,
                   delVars, failures>>

\* The last continuation: console.log("Done.").
Done ==
    /\ mainPc = "deleting"
    /\ MapFulfilled(delTask)
    /\ mainPc' = "done"
    /\ UNCHANGED <<treeVars, bucket, listVars, walkVars, s3Map, task, puts,
                   delVars, failures>>

\* The number of putObject and deleteObject requests a run has issued.
RECURSIVE Requests(_, _)
Requests(p, d) ==
    IF DOMAIN p = {} THEN 0
    ELSE LET k == CHOOSE x \in DOMAIN p : TRUE
         IN Len(p[k]) + d[k] + Requests(Remove(p, k), Remove(d, k))

\* main() is run again on the same tree and the bucket as the last run left it.
Rerun ==
    /\ mainPc = "done"
    /\ run < MaxRuns
    /\ run' = run + 1
    /\ listState' = "paging"
    /\ keys' = <<>>
    /\ marker' = NoMarker
    /\ requests' = <<NoMarker>>
    /\ walkState' = "readdir"
    /\ dirPending' = {}
    /\ statPending' = {}
    /\ localFiles' = <<>>
    /\ mainPc' = "gather"
    /\ s3Map' = <<>>
    /\ task' = [k \in Paths |-> "none"]
    /\ puts' = [k \in Paths |-> <<>>]
    /\ dels' = [k \in Paths |-> 0]
    /\ delTask' = [k \in Paths |-> "none"]
    /\ extraFiles' = {}
    /\ failures' = {}
    /\ lastOps' = Requests(puts, dels)
    /\ UNCHANGED <<local, dirs, bucket>>

\* The relative paths a tree may hold: a file directly in dist/, or a node of
\* a tree walked on its own, named by the nodes from dist/ down to it.
RECURSIVE Ascending(_)
Ascending(S) ==
    IF S = {} THEN <<>>
    ELSE LET m == CHOOSE x \in S : \A y \in S : x <= y
         IN <<m>> \o Ascending(S \ {m})

NodePaths == {Ascending(S) : S \in (SUBSET (1..MaxNodes)) \ {{}}}
AllPaths == Paths \cup NodePaths
WalkDirs == {distDir} \cup {pathJoin(distDir, d) : d \in NodePaths}

Next ==
    \/ \E resp \in {"page", "error", "null"} : ListPage(resp)
    \/ \E d \in WalkDirs, ok \in BOOLEAN : Readdir(d, ok)
    \/ \E x \in AllPaths, ok \in BOOLEAN : Stat(pathJoin(distDir, x), ok)
    \/ Spread
    \/ GatherRejected
    \/ \E x \in Paths : ReadOk(x)
    \/ \E x \in Paths : ReadFail(x)
    \/ \E x \in Paths : PutOk(x)
    \/ \E x \in Paths : PutFail(x)
    \/ UploadsRejected
    \/ UploadsSettled
    \/ StartDeletes
    \/ \E k \in Paths : DeleteOk(k)
    \/ \E k \in Paths, e \in {"NotFound", "Other"} : DeleteFail(k, e)
    \/ DeletesRejected
    \/ Done
    \/ Rerun

Spec == Init /\ [][Next]_vars

\* Every step of a run: the event loop runs each callback that is due and
\* every request is answered, with a result or with an error.  Running main()
\* again is up to the user.
RunStep ==
    \/ \E d \in {distDir} \cup dirPending, ok \in BOOLEAN : Readdir(d, ok)
    \/ \E fullpath \in statPending, ok \in BOOLEAN : Stat(fullpath, ok)
    \/ Spread
    \/ GatherRejected
    \/ \E x \in Paths : ReadOk(x) \/ ReadFail(x)
    \/ \E x \in Paths : PutOk(x) \/ PutFail(x)
    \/ UploadsRejected
    \/ UploadsSettled
    \/ StartDeletes
    \/ \E k \in Paths : DeleteOk(k) \/ \E e \in {"NotFound", "Other"} : DeleteFail(k, e)
    \/ DeletesRejected
    \/ Done
    \/ ListPage("error") \/ ListPage("null") \/ ListPage("page")

\* For progress the bytes of a file matter only through their relation to the
\* listed ETag (equal, different, or an ETag that is no hash), so the runs
\* checked for progress start from the trees whose files all hold content 1,
\* against every bucket.
FairInit ==
    \E l \in Trees, b \in Buckets :
        /\ \A x \in DOMAIN l : l[x] = 1
        /\ Cardinality(DOMAIN l) + Cardinality(DOMAIN b) <= MaxObjects
        /\ Start(l, b, 1)

FairSpec == FairInit /\ [][Next]_vars /\ WF_vars(RunStep)

\* ------------------------------------------------------------- iterFS alone
\* A tree of n nodes: node i lies in directory parent[i] (0 is dist/ itself),
\* which is a directory created before it, and is a file or a directory.  A
\* node is named by its number.
RECURSIVE NodePath(_, _)
NodePath(parent, i) ==
    IF parent[i] = 0 THEN <<i>> ELSE NodePath(parent, parent[i]) \o <<i>>

\* iterFS(distDir) on any tree of at most MaxNodes files and directories.
WalkInit ==
    \E n \in 0..MaxNodes :
        \E parent \in [1..n -> 0..MaxNodes], isDir \in [1..n -> BOOLEAN] :
            /\ \A i \in 1..n : parent[i] < i /\ (parent[i] # 0 => isDir[parent[i]])
            /\ StartTree([p \in {NodePath(parent, i) : i \in {j \in 1..n : ~isDir[j]}} |-> 1],
                         {NodePath(parent, i) : i \in {j \in 1..n : isDir[j]}},
                         <<>>, 1)

WalkNext ==
    \/ \E d \in WalkDirs, ok \in BOOLEAN : Readdir(d, ok)
    \/ \E x \in AllPaths, ok \in BOOLEAN : Stat(pathJoin(distDir, x), ok)

\* Every readdir and stat is answered.
WalkSpec == WalkInit /\ [][WalkNext]_vars /\ WF_vars(WalkNext)

\* ------------------------------------------------------------- properties
\* The remote listing this run diffs against, once iterS3 has resolved.
Listing == IF listState = "resolved" THEN BuildMap(keys) ELSE <<>>

\* x has a listed remote object whose ETag decodes to a string.
Decodable(x) ==
    /\ x \in DOMAIN Listing
    /\ Listing[x].ETag # Undefined
    /\ JSONparse(Listing[x].ETag).ok

\* The local file x and its listed remote object have the same hash.
Matching(x) ==
    /\ x \in DOMAIN local
    /\ Decodable(x)
    /\ JSONparse(Listing[x].ETag).val = MD5(local[x])

\* The local file x has no listed remote object, or one with another hash (an
\* object listed without an ETag has no hash to be equal to).
Differing(x) ==
    /\ x \in DOMAIN local
    /\ listState = "resolved"
    /\ \/ x \notin DOMAIN Listing
       \/ Listing[x].ETag = Undefined
       \/ Decodable(x) /\ JSONparse(Listing[x].ETag).val # MD5(local[x])

\* C1: a local file whose MD5 equals the decoded ETag of the remote object with
\* its key is skipped: no put is ever issued for the key, no delete is ever
\* issued for it, and the object stays in the bucket as it was; the file's task
\* ends skipped unless reading the file failed.
C1_MatchingIsSkipped ==
    \A x \in Paths :
        Matching(x) =>
            /\ puts[x] = <<>>
            /\ dels[x] = 0
            /\ delTask[x] = "none"
            /\ task[x] \in {"none", "reading", "skipped", "failed"}
            /\ task[x] = "failed" => "read" \in failures
            /\ x \in DOMAIN bucket /\ bucket[x] = Listing[x].ETag
            /\ mainPc \in {"extra", "deleting", "done"} =>
                   task[x] = "skipped" /\ x \notin extraFiles

\* A matching file has been skipped in a run that went on to delete another key.
C1_Witness ==
    \E x \in Paths, y \in Paths :
        /\ Matching(x) /\ task[x] = "skipped"
        /\ dels[y] = 1 /\ delTask[y] = "ok"
        /\ mainPc = "done"

\* C2: a local file with no remote object of its key, or with a differing hash,
\* is uploaded: it is never skipped, at most one put is issued for it, the
\* put carries the file's bytes under the file's relative path, it is issued
\* as soon as the file has been read, and when the run ends with "Done." the
\* remote object's decoded ETag is the file's MD5.
C2_DifferingIsUploaded ==
    \A x \in Paths :
        Differing(x) =>
            /\ task[x] # "skipped"
            /\ puts[x] \in {<<>>, <<local[x]>>}
            /\ task[x] \in {"putting", "uploaded"} => puts[x] = <<local[x]>>
            /\ task[x] \in {"none", "reading"} => puts[x] = <<>>
            /\ task[x] = "failed" =>
                   \/ puts[x] = <<>> /\ "read" \in failures
                   \/ puts[x] = <<local[x]>> /\ "put" \in failures
            /\ mainPc \in {"extra", "deleting", "done"} => task[x] = "uploaded"
            /\ mainPc = "done" =>
                   /\ x \in DOMAIN bucket
                   /\ JSONparse(bucket[x]).ok
                   /\ JSONparse(bucket[x]).val = MD5(local[x])

\* A run has ended after uploading one file over a differing remote object
\* and one file that had no remote object.
C2_Witness ==
    /\ mainPc = "done"
    /\ \E x \in Paths, y \in Paths :
        /\ Differing(x) /\ x \in DOMAIN Listing /\ Decodable(x)
        /\ Differing(y) /\ y \notin DOMAIN Listing
        /\ task[x] = "uploaded" /\ task[y] = "uploaded"

\* Listed remote keys with no local file.
RemoteOnly == (DOMAIN Listing) \ (DOMAIN local)

\* C3: every listed remote key with no local file is deleted by the end of the
\* run: when "Done." is logged exactly one delete has been issued for it and has
\* completed, and the key is gone from the bucket; and a run in which nothing
\* fails does reach "Done.", so that the deletes are eventually issued and
\* complete.
C3_RemoteOnlyDeleted ==
    /\ [](mainPc = "done" =>
            \A k \in RemoteOnly :
                dels[k] = 1 /\ delTask[k] = "ok" /\ k \notin DOMAIN bucket)
    /\ <>(failures # {} \/ mainPc = "done")

\* A run has ended with two remote-only keys deleted and a local file kept.
C3_Witness ==
    /\ mainPc = "done"
    /\ Cardinality(RemoteOnly) = 2
    /\ \A k \in RemoteOnly : delTask[k] = "ok" /\ k \notin DOMAIN bucket
    /\ DOMAIN local # {}

\* C4: a run that follows a run ended with "Done.", on the same tree and the
\* bucket as that run left it, issues no put and no delete.
C4_SecondRunIdle ==
    run >= 2 =>
        /\ \A k \in Paths : puts[k] = <<>> /\ dels[k] = 0
        /\ mainPc \in {"extra", "deleting", "done"} => extraFiles = {}
        /\ \A k \in Paths : task[k] \notin {"putting", "uploaded"}

\* A second run has ended after a first run that issued two requests or more.
C4_Witness ==
    /\ run = 2
    /\ mainPc = "done"
    /\ lastOps >= 2
    /\ DOMAIN local # {}
    /\ \A x \in DOMAIN local : task[x] = "skipped"

\* The plan a run has made once every local file is decided.
toUpload == {k \in Paths : puts[k] # <<>>}
unchanged == {k \in Paths : task[k] = "skipped"}
toDelete == extraFiles
PlanMade == mainPc \in {"extra", "deleting", "done"}

ExactlyOne(a, b) == (a \/ b) /\ ~(a /\ b)

\* C5 (as stated): once the plan is made every listed remote key is in exactly
\* one of unchanged and toDelete, and every local key is in exactly one of
\* toUpload and unchanged.
C5_AsStated ==
    PlanMade =>
        /\ \A k \in DOMAIN Listing : ExactlyOne(k \in unchanged, k \in toDelete)
        /\ \A k \in DOMAIN local : ExactlyOne(k \in toUpload, k \in unchanged)

\* C5 (amended): once the plan is made every listed remote key is in exactly
\* one of toUpload, unchanged and toDelete (a remote key whose local file
\* differs is in toUpload and in neither of the others), every local key is in
\* exactly one of toUpload and unchanged, and the three sets are pairwise
\* disjoint and hold no other key.
C5_PlanPartitions ==
    PlanMade =>
        /\ \A k \in DOMAIN Listing :
              Cardinality({S \in {toUpload, unchanged, toDelete} : k \in S}) = 1
        /\ \A k \in DOMAIN local : ExactlyOne(k \in toUpload, k \in unchanged)
        /\ toUpload \cap unchanged = {}
        /\ toUpload \cap toDelete = {}
        /\ unchanged \cap toDelete = {}
        /\ toUpload \cup unchanged = DOMAIN local
        /\ toDelete = RemoteOnly

\* The plan is made for a key present on both sides with differing hashes,
\* next to a remote-only key.
C5_Witness ==
    /\ PlanMade
    /\ \E k \in Paths : Differing(k) /\ k \in DOMAIN Listing /\ k \in toUpload
    /\ toDelete # {}

\* C6: no delete is issued while a local file is still being read or a put is
\* still in flight: whenever a delete has been issued, every local file is
\* skipped or uploaded.
C6_DeletesAfterUploads ==
    (\E k \in Paths : dels[k] > 0 \/ delTask[k] # "none") =>
        /\ \A x \in Paths : task[x] \notin {"reading", "putting"}
        /\ \A x \in DOMAIN local : task[x] \in {"skipped", "uploaded"}

\* A delete is pending after an upload and a skip have completed.
C6_Witness ==
    /\ \E k \in Paths : delTask[k] = "pending"
    /\ \E x \in Paths : task[x] = "uploaded"

\* The ETag listed for x is there but is not the quoted hash of any content.
Malformed(x) ==
    /\ x \in DOMAIN Listing
    /\ Listing[x].ETag # Undefined
    /\ \/ ~JSONparse(Listing[x].ETag).ok
       \/ JSONparse(Listing[x].ETag).val \notin {MD5(c) : c \in Contents}

\* C7 (as stated): a local file whose remote object has a malformed ETag is
\* uploaded, never skipped, and the malformed ETag fails nothing: once the
\* file is read its put is issued.
C7_MalformedIsUploaded ==
    /\ "parse" \notin failures
    /\ \A x \in DOMAIN local :
          Malformed(x) =>
              /\ task[x] # "skipped"
              /\ task[x] = "failed" => "read" \in failures \/ "put" \in failures

\* C8: one rejected operation aborts the run: after a failed read (or hash
\* comparison) or a failed put no delete is ever issued and "Done." is never
\* logged; after a failed delete "Done." is never logged.
C8_FailureAborts ==
    /\ ({"read", "parse", "put"} \cap failures # {}) =>
          /\ \A k \in Paths : dels[k] = 0 /\ delTask[k] = "none"
          /\ mainPc \in {"upload", "failed"}
    /\ ({"delete", "notfound"} \cap failures # {}) =>
          mainPc \in {"deleting", "failed"}

\* A put has failed in a run that had a remote-only key to delete, the other
\* file's upload has completed, and the chain is rejected.
C8_Witness ==
    /\ "put" \in failures
    /\ mainPc = "failed"
    /\ RemoteOnly # {}
    /\ \E x \in Paths : task[x] = "uploaded"

\* C9 (as stated): a delete answered "not found" does not fail the run.
C9_NotFoundTolerated ==
    "notfound" \in failures => mainPc # "failed"

\* C10: when a page of the listing fails or is null, or readdir or stat
\* fails, nothing is reconciled: the listing is not resolved (and whenever it
\* is resolved it holds the whole bucket), no file is read, no put and no
\* delete is issued, and the chain never gets past Promise.all.
C10_ListOrWalkFailureStops ==
    /\ "list" \in failures => listState = "rejected"
    /\ "walk" \in failures => walkState = "rejected"
    /\ (listState = "resolved" /\ mainPc = "gather") =>
          {keys[i].Key : i \in 1..Len(keys)} = DOMAIN bucket
    /\ ({"list", "walk"} \cap failures # {}) =>
          /\ mainPc \in {"gather", "failed"}
          /\ \A k \in Paths : puts[k] = <<>> /\ dels[k] = 0 /\ task[k] = "none"

\* The second page of the listing has failed with the first page accumulated
\* and the walk resolved, and the chain is rejected.
C10_Witness ==
    /\ "list" \in failures
    /\ Len(keys) > 0
    /\ walkState = "resolved"
    /\ mainPc = "failed"

\* What has been reconciled so far: a file read, a put or a delete issued.
Reconciling ==
    \E k \in Paths : task[k] # "none" \/ puts[k] # <<>> \/ dels[k] > 0 \/ delTask[k] # "none"

\* The bucket as a full listing: every object once, in key order.
FullListing(b) ==
    LET sorted == SortKeys(DOMAIN b)
    IN [i \in 1..Len(sorted) |-> [Key |-> sorted[i], ETag |-> b[sorted[i]]]]

\* C11: no local file is read and no put or delete is issued until both the
\* remote listing and the local walk have completed in full: whenever
\* something has been reconciled, iterS3 has resolved with the whole bucket
\* (every object not put since is listed, every listed object not deleted
\* since is there) and iterFS has resolved with every local file; and while
\* either is still under way the chain has not got past Promise.all.
C11_WaitsForBoth ==
    /\ Reconciling =>
          /\ listState = "resolved"
          /\ walkState = "resolved"
          /\ \A k \in DOMAIN bucket : k \in DOMAIN Listing \/ puts[k] # <<>>
          /\ \A k \in DOMAIN Listing : k \in DOMAIN bucket \/ dels[k] > 0
          /\ RelativePaths(localFiles) = DOMAIN local
    /\ (listState # "resolved" \/ walkState # "resolved") =>
          /\ mainPc \in {"gather", "failed"}
          /\ s3Map = <<>>

\* A file is being read, after a non-empty listing and the walk have resolved.
C11_Witness ==
    /\ \E x \in Paths : task[x] = "reading"
    /\ listState = "resolved"
    /\ walkState = "resolved"
    /\ Len(keys) >= 1
    /\ mainPc = "upload"

\* C12: "Done." is logged only when the upload and delete phases are complete:
\* at "Done." nothing has failed, every local file is skipped or uploaded,
\* every put issued has completed and every delete issued has completed; and
\* a run in which nothing fails does log "Done.".
C12_DoneOnlyWhenComplete ==
    /\ [](mainPc = "done" =>
            /\ failures = {}
            /\ \A x \in DOMAIN local : task[x] \in {"skipped", "uploaded"}
            /\ \A k \in Paths :
                  /\ puts[k] # <<>> => task[k] = "uploaded" /\ k \in DOMAIN bucket
                  /\ dels[k] > 0 => delTask[k] = "ok" /\ k \notin DOMAIN bucket
                  /\ delTask[k] \in {"none", "ok"}
                  /\ task[k] \in {"none", "skipped", "uploaded"})
    /\ <>(mainPc = "done" \/ failures # {})

\* "Done." is logged after a put and a delete have both completed.
C12_Witness ==
    /\ mainPc = "done"
    /\ \E x \in Paths : task[x] = "uploaded"
    /\ \E k \in Paths : delTask[k] = "ok"

\* The number of pages a bucket of n objects is listed in.
PagesOf(n) == IF n = 0 THEN 1 ELSE (n + PageSize - 1) \div PageSize

\* C13: the first page is requested without a marker, every further page with
\* the key of the last object of the page before it, and only after a
\* truncated page; the lister resolves at the first page that is not
\* truncated, with exactly the objects of the bucket, each once; an empty
\* bucket resolves with the empty sequence after one request.
C13_Pagination ==
    /\ requests[1] = NoMarker
    /\ marker = requests[Len(requests)]
    /\ \A i \in 2..Len(requests) : requests[i] = keys[(i - 1) * PageSize].Key
    /\ mainPc = "gather" =>
          /\ Len(requests) <= PagesOf(Cardinality(DOMAIN bucket))
          /\ listState = "paging" /\ Len(keys) > 0 =>
                 keys = SubSeq(FullListing(bucket), 1, Len(keys))
          /\ listState = "resolved" =>
                 /\ keys = FullListing(bucket)
                 /\ Len(requests) = PagesOf(Cardinality(DOMAIN bucket))
                 /\ DOMAIN bucket = {} => keys = <<>> /\ requests = <<NoMarker>>

\* A bucket of three objects has been listed in two pages.
C13_Witness ==
    /\ listState = "resolved"
    /\ mainPc = "gather"
    /\ Len(keys) = 3
    /\ Len(requests) = 2

\* C14: with no local file and a non-empty listing, no put is issued, a
\* delete is issued for every listed object (one each), and at "Done." the
\* bucket is empty.
C14_EmptyTreeWipesBucket ==
    (DOMAIN local = {} /\ DOMAIN Listing # {}) =>
        /\ \A k \in Paths : puts[k] = <<>> /\ task[k] = "none"
        /\ PlanMade => extraFiles = DOMAIN Listing
        /\ mainPc \in {"deleting", "done"} => \A k \in DOMAIN Listing : dels[k] = 1
        /\ mainPc = "done" =>
              /\ \A k \in DOMAIN Listing : delTask[k] = "ok"
              /\ DOMAIN bucket = {}

\* A run with no local file has ended after deleting three remote objects.
C14_Witness ==
    /\ DOMAIN local = {}
    /\ Cardinality(DOMAIN Listing) = 3
    /\ \A k \in DOMAIN Listing : dels[k] = 1 /\ delTask[k] = "ok"
    /\ localFiles = <<>>
    /\ mainPc = "done"

\* The walk found no file and the listing no object.
BothEmpty ==
    /\ DOMAIN local = {}
    /\ listState = "resolved" /\ keys = <<>>
    /\ walkState = "resolved" /\ localFiles = <<>>

\* C15: when the local tree and the remote listing are both empty the plan is
\* empty: no file is read, no put and no delete is issued, and the run goes
\* on to log "Done." (unless the chain was rejected before).
C15_BothEmptyIsNoop ==
    /\ [](BothEmpty =>
            /\ \A k \in Paths : puts[k] = <<>> /\ dels[k] = 0
                                /\ task[k] = "none" /\ delTask[k] = "none"
            /\ PlanMade => extraFiles = {}
            /\ bucket = <<>>
            /\ failures = {})
    /\ BothEmpty ~> (mainPc = "done")

\* "Done." is logged in a run that found nothing on either side.
C15_Witness ==
    /\ BothEmpty
    /\ mainPc = "done"
    /\ run = 1

\* The local files decided so far: skipped, or uploaded with the put completed.
Claimed == {x \in Paths : task[x] \in {"skipped", "uploaded"}}

\* C16: from the spread continuation on, s3Map holds exactly the listed
\* objects whose key no decided local file has claimed, each as listed,
\* whatever the order of the callbacks; so once every local file is processed
\* what remains is exactly the listed keys without a local file.
C16_MapIsListingMinusClaimed ==
    (mainPc # "gather" /\ listState = "resolved" /\ walkState = "resolved") =>
        /\ DOMAIN s3Map = (DOMAIN Listing) \ Claimed
        /\ \A k \in DOMAIN s3Map : s3Map[k] = Listing[k]
        /\ MapFulfilled(task) => DOMAIN s3Map = (DOMAIN Listing) \ (DOMAIN local)
        /\ PlanMade => extraFiles = (DOMAIN Listing) \ (DOMAIN local)

\* Every local file is processed, one of them uploaded over a listed object,
\* and a remote-only key remains in s3Map.
C16_Witness ==
    /\ mainPc = "extra"
    /\ \E x \in DOMAIN Listing : task[x] = "uploaded"
    /\ s3Map # <<>>
    /\ extraFiles = DOMAIN s3Map

\* C17: the first failed read or put rejects the chain for good, but the
\* other files' operations are not cancelled: while the chain is rejected a
\* read still in flight can complete and issue its put, a put still in flight
\* can complete and store its object, and neither changes the outcome (the
\* chain stays rejected and no delete is issued).
C17_SiblingsNotCancelled ==
    /\ [](mainPc = "failed" =>
            \A x \in Paths :
                /\ task[x] = "reading" => ENABLED ReadOk(x)
                /\ task[x] = "putting" => ENABLED PutOk(x))
    /\ [][mainPc = "failed" => mainPc' = "failed" /\ dels' = dels]_vars
    /\ [][\A x \in Paths :
            (mainPc = "failed" /\ task[x] = "putting" /\ task'[x] = "uploaded") =>
                (x \in DOMAIN bucket' /\ bucket'[x] = ETagOf(local[x]))]_vars

\* The chain is rejected by one file's failed put while the put of another
\* file, not in the bucket before, has completed.
C17_Witness ==
    /\ mainPc = "failed"
    /\ "put" \in failures
    /\ \E x \in Paths, y \in Paths :
          /\ task[y] = "failed"
          /\ task[x] = "uploaded"
          /\ x \notin DOMAIN Listing
          /\ x \in DOMAIN bucket

\* C18: nothing is retried: a file's read is started once (a task that has
\* left "reading" never returns to it), at most one put is issued per file,
\* at most one delete per key, and no key is both put and deleted in one run.
C18_NoRetries ==
    /\ [](\A k \in Paths :
            /\ Len(puts[k]) <= 1
            /\ dels[k] <= 1
            /\ ~(puts[k] # <<>> /\ dels[k] > 0))
    /\ [][\A k \in Paths :
            /\ (task'[k] = "reading" /\ task[k] # "reading") => mainPc = "gather"
            /\ (task[k] \in {"failed", "skipped", "uploaded"} /\ run' = run) =>
                  task'[k] = task[k]
            /\ (delTask[k] \in {"failed", "ok"} /\ run' = run) =>
                  delTask'[k] = delTask[k]]_vars

\* A put and a delete have both failed to be retried: the chain is rejected
\* with one failed put and nothing more issued for its key.
C18_Witness ==
    /\ mainPc = "failed"
    /\ \E x \in Paths : task[x] = "failed" /\ Len(puts[x]) = 1
    /\ \E y \in Paths : task[y] = "uploaded"

\* C19: no delete is ever issued for a key that has a local file; and as long
\* as no delete has been issued the bucket loses no key: every listed object
\* is still there, with the ETag it was listed with or with that of the local
\* file of its key.
C19_LocalKeysNeverDeleted ==
    /\ [](\A k \in DOMAIN local : dels[k] = 0 /\ delTask[k] = "none" /\ k \notin extraFiles)
    /\ []((\A k \in Paths : dels[k] = 0) =>
            \A k \in DOMAIN Listing :
                /\ k \in DOMAIN bucket
                /\ \/ bucket[k] = Listing[k].ETag
                   \/ k \in DOMAIN local /\ bucket[k] = ETagOf(local[k]))
    /\ [][(\A k \in Paths : dels'[k] = 0) => (DOMAIN bucket) \subseteq (DOMAIN bucket')]_vars

\* The upload phase is aborted by a failed put: the listed object of that key
\* is still there as listed, and so is a remote-only object.
C19_Witness ==
    /\ mainPc = "failed"
    /\ "put" \in failures
    /\ \E k \in (DOMAIN Listing) \cap (DOMAIN local) :
          task[k] = "failed" /\ bucket[k] = Listing[k].ETag
    /\ \E z \in RemoteOnly : z \in DOMAIN bucket

====
